---- MODULE Spec2Model ----
(***************************************************************************)
(* The watch-dispatch-handle event loop of src-tauri/src/watcher/mod.rs:   *)
(* Watcher::start spawns the Dispatcher task, then selects between the     *)
(* event channel and the stop channel, handing every received event to     *)
(* Handler::handle and re-publishing the derived events it returns.        *)
(*                                                                         *)
(* The Dispatcher (watcher/dispatchers), the Handler (watcher/handlers)    *)
(* and the Event catalog (watcher/events) are modules of the repository    *)
(* that are declared in mod.rs (lines 1-3) but whose code is not at hand;  *)
(* they are modelled from the specification's description of them.         *)
(***************************************************************************)
EXTENDS Naturals, Sequences, FiniteSets

VARIABLES
    wstate,       \* "New" (constructed), "Running" (inside start), "Stopped" (start returned)
    pc,           \* position of the loop: "select", "handle" (inside handler.handle), "post" (the for loop)
    events,       \* the unbounded event channel (events_tx, events_rx): FIFO of events
    cur,          \* the event bound by Ok(event) at line 70, NoEvent outside of it
    pending,      \* the derived events returned by handle and not yet sent (for loop, line 73)
    inflight,     \* ids of the events whose Handler::handle call or re-publication is in progress
    handled,      \* ids handed to Handler::handle by this execution of start, in call order
    nextId,       \* position the next event enqueued on the event channel will have
    lastErr,      \* id of the last event whose handle call returned Err (0: none)
    stopq,        \* number of values waiting in the stop channel
    stopTxAlive,  \* the owner still holds the stop channel's sender
    dtask,        \* the task spawned at line 61: "none", "spawned", "started", "failed", "exited"
    dstopReq,     \* Dispatcher::stop has requested termination and no task has honoured it yet
    published,    \* number of observed events the current Dispatcher task has published
    starts,       \* number of calls of Watcher::start on this instance
    dstopCalls,   \* number of calls of Dispatcher::stop made by this instance
    chan,         \* who holds an end of the event channel: tx (events_tx, the loop),
                  \* taskTx (etx, the Dispatcher task), rx (events_rx, the loop)
    ret,          \* what the last call of start returned: "none" (it has not), "Ok", "Err"
    dstopErr,     \* the call of Dispatcher::stop of this execution of start returned Err
    stopRecv      \* what recv(self.stop) gave the stop arm of this execution of start:
                  \* "none" (not taken), "Ok" (a value), "Err" (the channel is disconnected)

vars == <<wstate, pc, events, cur, pending, inflight, handled, nextId, lastErr,
          stopq, stopTxAlive, dtask, dstopReq, published, starts, dstopCalls,
          chan, ret, dstopErr, stopRecv>>

retVars == <<chan, ret, dstopErr, stopRecv>>

loopVars == <<pc, events, cur, pending, inflight, handled, nextId, lastErr>>
ownerVars == <<stopq, stopTxAlive>>
taskVars == <<dtask, dstopReq, published>>

(***************************************************************************)
(* Bounds of the model.                                                    *)
(***************************************************************************)
MaxObserved == 2      \* observed events one Dispatcher task publishes (a finite burst)
MaxStops == 2         \* values the owner sends on the stop channel
MaxStarts == 2        \* calls of Watcher::start on the one instance
MaxQueue == 2         \* queue length up to which an endlessly publishing Dispatcher publishes

(***************************************************************************)
(* Events.  Observed kinds are produced by the Dispatcher only, derived    *)
(* kinds by the Handler only.                                              *)
(***************************************************************************)
ObservedKinds == {"FileChange", "HeadChange"}
DerivedKinds == {"Index", "SessionClose", "Flush"}
NoEvent == [id |-> 0, kind |-> "None", parent |-> 0]

\* The events of a finite burst carry their position in the channel's order
\* (id), which the history variables handled, inflight and lastErr follow.
\* The events of an endless stream (DispatcherStream) carry no position
\* (id 0) and leave no trace in handled.
Untracked(e) == e.id = 0

\* Handler::handle(event) -> Ok(events): the sequences of derived events a
\* successful call may return for an event of the given kind.  A derived
\* event may itself yield a derived event (a head change is answered by the
\* session close or by a flush event, and handling the flush event yields the
\* session close), so one observed event can take several handling passes;
\* no kind leads back to itself, which is the Handler's side of the
\* finite-cascade contract.
HandleResults(kind) ==
    CASE kind = "FileChange" -> {<<>>, <<"Index">>, <<"Index", "SessionClose">>}
      [] kind = "HeadChange" -> {<<"SessionClose">>, <<"Flush">>}
      [] kind = "Flush" -> {<<"SessionClose">>}
      [] OTHER -> {<<>>}

AllKinds == ObservedKinds \cup DerivedKinds

\* The length of the longest sequence of derived events one handle call returns.
MaxDerived ==
    CHOOSE n \in 0..Cardinality(DerivedKinds) :
        /\ \E k \in AllKinds : \E r \in HandleResults(k) : Len(r) = n
        /\ \A k \in AllKinds : \A r \in HandleResults(k) : Len(r) <= n

\* The greatest number of a finite, non-empty set of numbers.
SetMax(S) == CHOOSE n \in S : \A m \in S : m <= n

\* The most handle calls one event of the given kind can cause: its own and
\* those of every event derived from it, over all the handling passes.
RECURSIVE CascadeOf(_), CascadeOfSeq(_)
CascadeOfSeq(r) == IF r = <<>> THEN 0 ELSE CascadeOf(Head(r)) + CascadeOfSeq(Tail(r))
CascadeOf(kind) == 1 + SetMax({CascadeOfSeq(r) : r \in HandleResults(kind)})

\* The most handle calls one observed event can cause.
MaxCascade == SetMax({CascadeOf(k) : k \in ObservedKinds})

(***************************************************************************)
(* The channels (crossbeam_channel::unbounded, select!).                   *)
(***************************************************************************)
\* Variant of Send: the event is pushed at the front (a stack, not a queue).
SendFront(q, kind, parent) == <<[id |-> nextId, kind |-> kind, parent |-> parent]>> \o q

\* events_tx.send(event): the event goes to the tail of the queue.
Send(q, kind, parent) == Append(q, [id |-> nextId, kind |-> kind, parent |-> parent])

\* events_tx.send(event) of an event that carries no position.
SendUntracked(q, kind) == Append(q, [id |-> 0, kind |-> kind, parent |-> 0])

\* recv(events_rx) -> Ok(event): the event at the front of the queue.
Front(q) == Head(q)

\* Variant of AfterRecv: the receive peeks, the event stays in the queue.
AfterRecvKeep(q) == q

\* The queue after recv(events_rx) has taken its event.
AfterRecv(q) == Tail(q)

\* recv(events_rx) is ready: a message waits (the loop itself holds events_tx,
\* so the channel is never disconnected while the loop runs).
EventReady == events # <<>>

\* recv(events_rx) would complete with Err (lines 84-86): the channel is
\* empty and no sender of it is left.
RecvDisconnected == events = <<>> /\ ~chan.tx /\ ~chan.taskTx

\* events_tx.send(event) would return Err (lines 74-76): the receiver is gone.
SendFails == ~chan.rx

\* self.dispatcher.stop(): when it succeeds (ok) the termination of the
\* Dispatcher is requested; it returns at once, whatever the task is doing.
DispatcherStop(ok) == dstopReq \/ ok

\* recv(self.stop) is ready: a value waits, or every sender is gone (the
\* receive then completes with Err, which the arm's pattern `_` accepts).
StopReady == stopq > 0 \/ ~stopTxAlive

Init ==
    /\ wstate = "New"
    /\ pc = "select"
    /\ events = <<>>
    /\ cur = NoEvent
    /\ pending = <<>>
    /\ inflight = {}
    /\ handled = <<>>
    /\ nextId = 1
    /\ lastErr = 0
    /\ stopq = 0
    /\ stopTxAlive = TRUE
    /\ dtask = "none"
    /\ dstopReq = FALSE
    /\ published = 0
    /\ starts = 0
    /\ dstopCalls = 0
    /\ chan = [tx |-> FALSE, taskTx |-> FALSE, rx |-> FALSE]
    /\ ret = "none"
    /\ dstopErr = FALSE
    /\ stopRecv = "none"

(***************************************************************************)
(* The owner: it holds the sender of the stop channel and calls start.     *)
(***************************************************************************)
\* The owner sends a value on the stop channel.
OwnerSendStop ==
    /\ stopTxAlive
    /\ stopq < MaxStops
    /\ stopq' = stopq + 1
    /\ UNCHANGED <<wstate, loopVars, stopTxAlive, taskVars, starts, dstopCalls>>
    /\ UNCHANGED retVars

\* The owner drops the stop channel's sender without sending.
OwnerDropStop ==
    /\ stopTxAlive
    /\ stopTxAlive' = FALSE
    /\ UNCHANGED <<wstate, loopVars, stopq, taskVars, starts, dstopCalls>>
    /\ UNCHANGED retVars

\* Variant of Start: events_tx is moved into the Dispatcher task instead of
\* a clone of it, the loop keeps the receiver only.
StartMovesSender ==
    /\ wstate \in {"New", "Stopped"}
    /\ starts < MaxStarts
    /\ starts' = starts + 1
    /\ wstate' = "Running"
    /\ pc' = "select"
    /\ events' = <<>>
    /\ cur' = NoEvent
    /\ pending' = <<>>
    /\ inflight' = {}
    /\ handled' = <<>>
    /\ nextId' = 1
    /\ lastErr' = 0
    /\ dtask' = "spawned"
    /\ published' = 0
    /\ UNCHANGED <<ownerVars, dstopReq, dstopCalls>>
    /\ chan' = [tx |-> FALSE, taskTx |-> TRUE, rx |-> TRUE]
    /\ ret' = "none"
    /\ dstopErr' = FALSE
    /\ stopRecv' = "none"

\* Watcher::start(&self), lines 56-66: a fresh channel, the Dispatcher task
\* spawned, the loop entered.  Nothing in start looks at whether an earlier
\* call has already run and returned.  A task of an earlier call holds the
\* sender of the earlier, dropped channel: its sends fail and reach nothing.
Start ==
    /\ wstate \in {"New", "Stopped"}
    /\ starts < MaxStarts
    /\ starts' = starts + 1
    /\ wstate' = "Running"
    /\ pc' = "select"
    /\ events' = <<>>
    /\ cur' = NoEvent
    /\ pending' = <<>>
    /\ inflight' = {}
    /\ handled' = <<>>
    /\ nextId' = 1
    /\ lastErr' = 0
    /\ dtask' = "spawned"
    /\ published' = 0
    /\ UNCHANGED <<ownerVars, dstopReq, dstopCalls>>
    /\ chan' = [tx |-> TRUE, taskTx |-> TRUE, rx |-> TRUE]
    /\ ret' = "none"
    /\ dstopErr' = FALSE
    /\ stopRecv' = "none"

\* The first call of start on the instance.
FirstStart == wstate = "New" /\ Start

(***************************************************************************)
(* The Dispatcher task, lines 61-65.                                       *)
(***************************************************************************)
\* dispatcher.start(etx) begins observing.
DispatcherStartOk ==
    /\ dtask = "spawned"
    /\ dtask' = "started"
    /\ UNCHANGED <<wstate, loopVars, ownerVars, dstopReq, published, starts, dstopCalls>>
    /\ UNCHANGED retVars

\* Variant of DispatcherStartErr: the failure of the task ends the loop too.
DispatcherStartErrAbort ==
    /\ dtask \in {"spawned", "started"}
    /\ dtask' = "failed"
    /\ wstate' = IF wstate = "Running" THEN "Stopped" ELSE wstate
    /\ events' = <<>>
    /\ UNCHANGED <<pc, cur, pending, inflight, handled, nextId, lastErr,
                   ownerVars, dstopReq, published, starts, dstopCalls>>
    /\ chan' = [chan EXCEPT !.taskTx = FALSE]
    /\ ret' = IF wstate = "Running" THEN "Err" ELSE ret
    /\ UNCHANGED <<dstopErr, stopRecv>>

\* dispatcher.start(etx) returns Err, at its beginning or later: logged at
\* line 63, the task ends and drops its sender.
DispatcherStartErr ==
    /\ dtask \in {"spawned", "started"}
    /\ dtask' = "failed"
    /\ UNCHANGED <<wstate, loopVars, ownerVars, dstopReq, published, starts, dstopCalls>>
    /\ chan' = [chan EXCEPT !.taskTx = FALSE]
    /\ UNCHANGED <<ret, dstopErr, stopRecv>>

\* The Dispatcher publishes an observed event on its sender.  Once start has
\* returned the receiver is gone and the send reaches nothing.
DispatcherPublish ==
    /\ dtask = "started"
    /\ ~dstopReq
    /\ published < MaxObserved
    /\ published' = published + 1
    /\ \E k \in ObservedKinds :
        IF chan.rx
        THEN /\ events' = Send(events, k, 0)
             /\ nextId' = nextId + 1
        ELSE UNCHANGED <<events, nextId>>
    /\ UNCHANGED <<wstate, pc, cur, pending, inflight, handled, lastErr,
                   ownerVars, dtask, dstopReq, starts, dstopCalls>>
    /\ UNCHANGED retVars

\* A Dispatcher that never runs out of observed events: it publishes
\* whenever the queue is shorter than MaxQueue.
DispatcherStream ==
    /\ dtask = "started"
    /\ ~dstopReq
    /\ wstate = "Running"
    /\ Len(events) < MaxQueue
    /\ \E k \in ObservedKinds : events' = SendUntracked(events, k)
    /\ UNCHANGED <<wstate, pc, cur, pending, inflight, handled, nextId, lastErr,
                   ownerVars, taskVars, starts, dstopCalls>>
    /\ UNCHANGED retVars

\* The Dispatcher honours a stop request: dispatcher.start returns, the task
\* ends and drops its sender.
DispatcherExit ==
    /\ dtask = "started"
    /\ dstopReq
    /\ dtask' = "exited"
    /\ dstopReq' = FALSE
    /\ UNCHANGED <<wstate, loopVars, ownerVars, published, starts, dstopCalls>>
    /\ chan' = [chan EXCEPT !.taskTx = FALSE]
    /\ UNCHANGED <<ret, dstopErr, stopRecv>>

(***************************************************************************)
(* The loop, lines 67-95.                                                  *)
(***************************************************************************)
\* The handling of cur is over: the loop is back at select!.
BackToSelect ==
    /\ pc' = "select"
    /\ cur' = NoEvent
    /\ inflight' = inflight \ {cur.id}

\* Variant of RecvEvent: the handling is started without waiting for the one
\* in progress (as if each event were handled on a task of its own).
RecvEventConcurrent ==
    /\ wstate = "Running"
    /\ EventReady
    /\ cur' = Front(events)
    /\ events' = AfterRecv(events)
    /\ handled' = IF Untracked(Front(events)) THEN handled
                  ELSE Append(handled, Front(events).id)
    /\ inflight' = inflight \cup {Front(events).id}
    /\ pc' = "handle"
    /\ UNCHANGED <<wstate, pending, nextId, lastErr, ownerVars, taskVars, starts, dstopCalls>>
    /\ UNCHANGED retVars

\* recv(events_rx) -> Ok(event), lines 69-71: the event leaves the channel
\* and handler.handle(event) is called.
RecvEvent ==
    /\ wstate = "Running"
    /\ pc = "select"
    /\ EventReady
    /\ cur' = Front(events)
    /\ events' = AfterRecv(events)
    /\ handled' = IF Untracked(Front(events)) THEN handled
                  ELSE Append(handled, Front(events).id)
    /\ inflight' = inflight \cup {Front(events).id}
    /\ pc' = "handle"
    /\ UNCHANGED <<wstate, pending, nextId, lastErr, ownerVars, taskVars, starts, dstopCalls>>
    /\ UNCHANGED retVars

\* handler.handle(event) returns Ok(events), line 72.
HandleOk ==
    /\ wstate = "Running"
    /\ pc = "handle"
    /\ \E ds \in HandleResults(cur.kind) :
        /\ pending' = ds
        /\ IF ds = <<>>
           THEN BackToSelect
           ELSE /\ pc' = "post"
                /\ UNCHANGED <<cur, inflight>>
    /\ UNCHANGED <<wstate, events, handled, nextId, lastErr, ownerVars, taskVars,
                   starts, dstopCalls>>
    /\ UNCHANGED retVars

\* Variant of HandleErr: the error is propagated (handle(event)?), start returns.
HandleErrBreak ==
    /\ wstate = "Running"
    /\ pc = "handle"
    /\ lastErr' = cur.id
    /\ BackToSelect
    /\ wstate' = "Stopped"
    /\ events' = <<>>
    /\ UNCHANGED <<pending, handled, nextId, ownerVars, taskVars, starts, dstopCalls>>
    /\ chan' = [chan EXCEPT !.tx = FALSE, !.rx = FALSE]
    /\ ret' = "Err"
    /\ UNCHANGED <<dstopErr, stopRecv>>

\* Variant of HandleErr: the failed event is put back on the channel for a retry.
HandleErrRequeue ==
    /\ wstate = "Running"
    /\ pc = "handle"
    /\ lastErr' = cur.id
    /\ BackToSelect
    /\ events' = Send(events, cur.kind, cur.parent)
    /\ nextId' = nextId + 1
    /\ UNCHANGED <<wstate, pending, handled, ownerVars, taskVars, starts, dstopCalls>>
    /\ UNCHANGED retVars

\* handler.handle(event) returns Err, lines 79-81: logged, nothing else.
HandleErr ==
    /\ wstate = "Running"
    /\ pc = "handle"
    /\ lastErr' = cur.id
    /\ BackToSelect
    /\ UNCHANGED <<wstate, events, pending, handled, nextId, ownerVars, taskVars,
                   starts, dstopCalls>>
    /\ UNCHANGED retVars

\* Variant of PostEvent: the event channel is bounded (bounded(MaxQueue)
\* in place of unbounded()), the send waits for room in the queue.
PostEventBounded ==
    /\ wstate = "Running"
    /\ pc = "post"
    /\ pending # <<>>
    /\ Len(events) < MaxQueue
    /\ IF Untracked(cur)
       THEN /\ events' = SendUntracked(events, Head(pending))
            /\ UNCHANGED nextId
       ELSE /\ events' = Send(events, Head(pending), cur.id)
            /\ nextId' = nextId + 1
    /\ pending' = Tail(pending)
    /\ IF Tail(pending) = <<>>
       THEN BackToSelect
       ELSE UNCHANGED <<pc, cur, inflight>>
    /\ UNCHANGED <<wstate, handled, lastErr, ownerVars, taskVars, starts, dstopCalls>>
    /\ UNCHANGED retVars

\* Variant of PostEvent: the returned events are sent last first.
PostEventReversed ==
    /\ wstate = "Running"
    /\ pc = "post"
    /\ pending # <<>>
    /\ IF Untracked(cur)
       THEN /\ events' = SendUntracked(events, pending[Len(pending)])
            /\ UNCHANGED nextId
       ELSE /\ events' = Send(events, pending[Len(pending)], cur.id)
            /\ nextId' = nextId + 1
    /\ pending' = SubSeq(pending, 1, Len(pending) - 1)
    /\ IF Len(pending) = 1
       THEN BackToSelect
       ELSE UNCHANGED <<pc, cur, inflight>>
    /\ UNCHANGED <<wstate, handled, lastErr, ownerVars, taskVars, starts, dstopCalls>>
    /\ UNCHANGED retVars

\* One pass of the for loop, lines 73-77: events_tx.send(event).
PostEvent ==
    /\ wstate = "Running"
    /\ pc = "post"
    /\ pending # <<>>
    /\ IF Untracked(cur)
       THEN /\ events' = SendUntracked(events, Head(pending))
            /\ UNCHANGED nextId
       ELSE /\ events' = Send(events, Head(pending), cur.id)
            /\ nextId' = nextId + 1
    /\ pending' = Tail(pending)
    /\ IF Tail(pending) = <<>>
       THEN BackToSelect
       ELSE UNCHANGED <<pc, cur, inflight>>
    /\ UNCHANGED <<wstate, handled, lastErr, ownerVars, taskVars, starts, dstopCalls>>
    /\ UNCHANGED retVars

\* Variant of StopSignal: the break is missing, the loop goes on selecting.
StopSignalNoBreak ==
    /\ wstate = "Running"
    /\ pc = "select"
    /\ StopReady
    /\ stopq' = IF stopq > 0 THEN stopq - 1 ELSE stopq
    /\ stopRecv' = IF stopq > 0 THEN "Ok" ELSE "Err"
    /\ dstopCalls' = dstopCalls + 1
    /\ \E ok \in BOOLEAN : dstopReq' = DispatcherStop(ok)
    /\ UNCHANGED <<wstate, loopVars, stopTxAlive, dtask, published, starts>>
    /\ UNCHANGED <<chan, ret, dstopErr>>

\* Variant of StopSignal: the loop breaks without calling dispatcher.stop().
StopSignalNoDispatcherStop ==
    /\ wstate = "Running"
    /\ pc = "select"
    /\ StopReady
    /\ stopq' = IF stopq > 0 THEN stopq - 1 ELSE stopq
    /\ stopRecv' = IF stopq > 0 THEN "Ok" ELSE "Err"
    /\ wstate' = "Stopped"
    /\ events' = <<>>
    /\ UNCHANGED <<pc, cur, pending, inflight, handled, nextId, lastErr,
                   stopTxAlive, taskVars, starts, dstopCalls>>
    /\ chan' = [chan EXCEPT !.tx = FALSE, !.rx = FALSE]
    /\ ret' = "Ok"
    /\ UNCHANGED dstopErr

\* Variant of StopSignal: the select is biased, the stop channel is looked at
\* only when no event is ready.
StopSignalWhenIdle ==
    /\ wstate = "Running"
    /\ pc = "select"
    /\ ~EventReady
    /\ StopReady
    /\ stopq' = IF stopq > 0 THEN stopq - 1 ELSE stopq
    /\ stopRecv' = IF stopq > 0 THEN "Ok" ELSE "Err"
    /\ dstopCalls' = dstopCalls + 1
    /\ \E ok \in BOOLEAN :
        /\ dstopReq' = DispatcherStop(ok)
        /\ dstopErr' = ~ok
    /\ wstate' = "Stopped"
    /\ ret' = "Ok"
    /\ events' = <<>>
    /\ chan' = [chan EXCEPT !.tx = FALSE, !.rx = FALSE]
    /\ UNCHANGED <<pc, cur, pending, inflight, handled, nextId, lastErr,
                   stopTxAlive, dtask, published, starts>>

\* Variant of StopSignal: the stop channel is looked at in the middle of the
\* handling of an event too (a cancellation point inside the arm).
StopSignalAnytime ==
    /\ wstate = "Running"
    /\ StopReady
    /\ stopq' = IF stopq > 0 THEN stopq - 1 ELSE stopq
    /\ stopRecv' = IF stopq > 0 THEN "Ok" ELSE "Err"
    /\ dstopCalls' = dstopCalls + 1
    /\ \E ok \in BOOLEAN :
        /\ dstopReq' = DispatcherStop(ok)
        /\ dstopErr' = ~ok
    /\ wstate' = "Stopped"
    /\ ret' = "Ok"
    /\ events' = <<>>
    /\ chan' = [chan EXCEPT !.tx = FALSE, !.rx = FALSE]
    /\ UNCHANGED <<pc, cur, pending, inflight, handled, nextId, lastErr,
                   stopTxAlive, dtask, published, starts>>

\* Variant of StopSignal: the error of dispatcher.stop() is propagated
\* (self.dispatcher.stop()?), start returns it.
StopSignalPropagates ==
    /\ wstate = "Running"
    /\ pc = "select"
    /\ StopReady
    /\ stopq' = IF stopq > 0 THEN stopq - 1 ELSE stopq
    /\ stopRecv' = IF stopq > 0 THEN "Ok" ELSE "Err"
    /\ dstopCalls' = dstopCalls + 1
    /\ \E ok \in BOOLEAN :
        /\ dstopReq' = DispatcherStop(ok)
        /\ dstopErr' = ~ok
        /\ ret' = IF ok THEN "Ok" ELSE "Err"
    /\ wstate' = "Stopped"
    /\ events' = <<>>
    /\ chan' = [chan EXCEPT !.tx = FALSE, !.rx = FALSE]
    /\ UNCHANGED <<pc, cur, pending, inflight, handled, nextId, lastErr,
                   stopTxAlive, dtask, published, starts>>

\* Variant of StopSignal: dispatcher.stop() hands the request to the observing
\* Dispatcher and waits until it is taken, so it returns only when
\* dispatcher.start has completed its initialization.
StopSignalWaitsForTask ==
    /\ wstate = "Running"
    /\ pc = "select"
    /\ StopReady
    /\ dtask = "started"
    /\ stopq' = IF stopq > 0 THEN stopq - 1 ELSE stopq
    /\ stopRecv' = IF stopq > 0 THEN "Ok" ELSE "Err"
    /\ dstopCalls' = dstopCalls + 1
    /\ \E ok \in BOOLEAN :
        /\ dstopReq' = DispatcherStop(ok)
        /\ dstopErr' = ~ok
    /\ wstate' = "Stopped"
    /\ ret' = "Ok"
    /\ events' = <<>>
    /\ chan' = [chan EXCEPT !.tx = FALSE, !.rx = FALSE]
    /\ UNCHANGED <<pc, cur, pending, inflight, handled, nextId, lastErr,
                   stopTxAlive, dtask, published, starts>>

\* recv(self.stop) -> _, lines 88-93, and the return at line 97:
\* dispatcher.stop() is called (its error is only logged), the loop breaks,
\* start returns and drops the channel.
StopSignal ==
    /\ wstate = "Running"
    /\ pc = "select"
    /\ StopReady
    /\ stopq' = IF stopq > 0 THEN stopq - 1 ELSE stopq
    /\ stopRecv' = IF stopq > 0 THEN "Ok" ELSE "Err"
    /\ dstopCalls' = dstopCalls + 1
    /\ \E ok \in BOOLEAN :
        /\ dstopReq' = DispatcherStop(ok)
        /\ dstopErr' = ~ok
    /\ wstate' = "Stopped"
    /\ ret' = "Ok"
    /\ events' = <<>>
    /\ chan' = [chan EXCEPT !.tx = FALSE, !.rx = FALSE]
    /\ UNCHANGED <<pc, cur, pending, inflight, handled, nextId, lastErr,
                   stopTxAlive, dtask, published, starts>>

Next ==
    \/ OwnerSendStop
    \/ OwnerDropStop
    \/ Start
    \/ DispatcherStartOk
    \/ DispatcherStartErr
    \/ DispatcherPublish
    \/ DispatcherExit
    \/ RecvEvent
    \/ HandleOk
    \/ HandleErr
    \/ PostEvent
    \/ StopSignal

Spec == Init /\ [][Next]_vars

\* One execution of start: the owner calls start once.  A later execution
\* has a channel, a loop and a Dispatcher task of its own.
NextOnce ==
    \/ OwnerSendStop
    \/ OwnerDropStop
    \/ FirstStart
    \/ DispatcherStartOk
    \/ DispatcherStartErr
    \/ DispatcherPublish
    \/ DispatcherExit
    \/ RecvEvent
    \/ HandleOk
    \/ HandleErr
    \/ PostEvent
    \/ StopSignal

\* The scheduling the code relies on: the handler returns, the loop's own
\* steps are taken, and select! chooses at random among the ready arms, so
\* an arm that is ready again and again is eventually taken.
FairSpec ==
    /\ Init /\ [][NextOnce]_vars
    /\ WF_vars(RecvEvent)
    /\ WF_vars(HandleOk \/ HandleErr)
    /\ WF_vars(PostEvent)
    /\ SF_vars(StopSignal)

\* The same program with a Dispatcher that publishes without end.
NextStream ==
    \/ OwnerSendStop
    \/ OwnerDropStop
    \/ Start
    \/ DispatcherStartOk
    \/ DispatcherStartErr
    \/ DispatcherStream
    \/ DispatcherExit
    \/ RecvEvent
    \/ HandleOk
    \/ HandleErr
    \/ PostEvent
    \/ StopSignal

StreamSpec == Init /\ [][NextStream]_vars

FairStreamSpec ==
    /\ StreamSpec
    /\ WF_vars(RecvEvent)
    /\ WF_vars(HandleOk \/ HandleErr)
    /\ WF_vars(PostEvent)
    /\ SF_vars(StopSignal)

TypeOK ==
    /\ wstate \in {"New", "Running", "Stopped"}
    /\ pc \in {"select", "handle", "post"}
    /\ stopq \in 0..MaxStops
    /\ stopTxAlive \in BOOLEAN
    /\ dtask \in {"none", "spawned", "started", "failed", "exited"}
    /\ published \in 0..MaxObserved
    /\ starts \in 0..MaxStarts
    /\ dstopReq \in BOOLEAN
    /\ dstopCalls \in 0..MaxStarts
    /\ \A i \in DOMAIN events :
        /\ events[i].kind \in AllKinds
        /\ events[i].parent # 0 => events[i].kind \in DerivedKinds
        /\ (events[i].parent = 0 /\ ~Untracked(events[i])) => events[i].kind \in ObservedKinds
    /\ \A i \in DOMAIN pending : pending[i] \in DerivedKinds
    /\ cur = NoEvent \/ cur.kind \in AllKinds
    /\ wstate # "Running" => events = <<>>
    /\ chan \in [tx : BOOLEAN, taskTx : BOOLEAN, rx : BOOLEAN]
    /\ ret \in {"none", "Ok", "Err"}
    /\ dstopErr \in BOOLEAN
    /\ stopRecv \in {"none", "Ok", "Err"}

(***************************************************************************)
(* Properties.                                                             *)
(***************************************************************************)
HandledIds == {handled[i] : i \in DOMAIN handled}
ChannelIds == {events[i].id : i \in DOMAIN events}
NoDup(s) == \A i, j \in DOMAIN s : i # j => s[i] # s[j]

\* The most events one execution of start can see: every observed event and
\* the derived events of each.
MaxIds == MaxObserved * MaxCascade

\* While the loop runs, every event enqueued so far is either still in the
\* channel or has been handed to the Handler, never both, and none twice.
C1_ExactlyOnceSoFar ==
    /\ NoDup(handled)
    /\ wstate = "Running" =>
        /\ ChannelIds \cup HandledIds = 1..(nextId - 1)
        /\ ChannelIds \cap HandledIds = {}

\* C1: every event on the event channel is passed to Handler::handle exactly
\* once: it is never handled twice and never leaves the channel unhandled,
\* and unless the loop stops it is eventually handled.
C1_EveryEventHandledOnce ==
    /\ []C1_ExactlyOnceSoFar
    /\ \A i \in 1..MaxIds :
        (wstate = "Running" /\ i \in ChannelIds) ~> (i \in HandledIds \/ wstate = "Stopped")

\* A running loop has handled two events without error, with more waiting.
C1_Witness ==
    /\ wstate = "Running"
    /\ Len(handled) >= 2
    /\ events # <<>>
    /\ lastErr = 0

\* C2: events are handled in the order of their enqueueing, and an event's
\* handling, the enqueueing of its derived events included, is over before
\* the handling of the next begins.
C2_HandledInArrivalOrder ==
    /\ \A i \in DOMAIN handled : handled[i] = i
    /\ \A i \in DOMAIN handled : i < Len(handled) => handled[i] \notin inflight
    /\ pending # <<>> => (handled # <<>> /\ cur.id = handled[Len(handled)])
    /\ \A j \in DOMAIN events : events[j].parent # 0 => events[j].parent \in HandledIds

\* A derived event of the first event is handled after a second observed
\* event that had been enqueued before it.
C2_Witness ==
    /\ Len(handled) >= 3
    /\ cur.parent = 1
    /\ cur.id = 3

\* C3: a handler error leaves the loop running at its select with the
\* channel as it was: the events behind the failed one are received next.
C3_HandlerErrorKeepsLoopRunning ==
    [][(pc = "handle" /\ lastErr' # lastErr)
        => (/\ wstate' = "Running"
            /\ pc' = "select"
            /\ events' = events
            /\ (events # <<>> => ENABLED RecvEvent)')]_vars

\* An event enqueued behind a failed one has been handled.
C3_Witness ==
    /\ wstate = "Running"
    /\ lastErr # 0
    /\ Len(handled) > lastErr
    /\ events # <<>>

\* C4 as claimed: once a value waits in the stop channel, no handle call begins.
C4_NoHandleAfterStopSent ==
    [][stopq > 0 => Len(handled') <= Len(handled)]_vars

\* C4, amended: once this execution of start has taken the stop arm of the
\* select, it begins no further handle call, whatever waited in the channel.
C4_NoHandleAfterStopReceived ==
    [][(starts > 0 /\ dstopCalls >= starts)
        => (Len(handled') <= Len(handled) /\ pc' = "select")]_vars

\* The loop has stopped while events were still waiting in the channel.
C4_Witness ==
    /\ wstate = "Stopped"
    /\ nextId - 1 > Len(handled)
    /\ handled # <<>>

\* C5: an execution of start that has returned has called Dispatcher::stop
\* exactly once, and one that is still running has not called it.
C5_DispatcherStopOncePerStart ==
    /\ wstate = "Stopped" => dstopCalls = starts
    /\ wstate = "Running" => dstopCalls + 1 = starts
    /\ wstate = "New" => dstopCalls = 0

\* start has returned after one call of Dispatcher::stop while a second stop
\* signal still waits in the stop channel.
C5_Witness ==
    /\ wstate = "Stopped"
    /\ starts = 1
    /\ dstopCalls = 1
    /\ stopq > 0

\* C7: at most one Handler::handle invocation is in progress at any time,
\* and none is while the loop selects.
C7_OneHandleAtATime ==
    /\ Cardinality(inflight) <= 1
    /\ pc = "select" => inflight = {}
    /\ pc # "select" => inflight = {cur.id}

\* An event is being handled while the Dispatcher has put further events behind it.
C7_Witness ==
    /\ pc = "handle"
    /\ Cardinality(inflight) = 1
    /\ Len(events) >= 1
    /\ published >= 2
\* C6: one value sent on the stop channel is enough: the running loop
\* reaches Stopped, however long the Dispatcher keeps publishing and the
\* handled events keep producing derived events.
C6_OneStopSuffices ==
    (wstate = "Running" /\ stopq > 0) ~> (wstate = "Stopped")

\* start has returned on a stop value while its Dispatcher task was publishing.
C6_Witness ==
    /\ wstate = "Stopped"
    /\ starts = 1
    /\ dstopCalls = 1
    /\ stopTxAlive
    /\ dtask = "started"
\* C8: with a Handler whose derived events lead back to no kind already on
\* their path, a finite burst of observed events leads to a finite number of
\* handle calls, at most MaxCascade for each observed event over all the
\* handling passes, and the loop comes to rest at its select with an empty
\* channel (or has stopped): the loop re-publishes what handle returned once
\* and nothing else.
C8_FiniteCascade ==
    /\ [](/\ Len(handled) <= published * MaxCascade
          /\ nextId - 1 <= published * MaxCascade)
    /\ <>[](wstate # "Running" \/ (events = <<>> /\ pc = "select" /\ pending = <<>>))

\* The whole burst has been handled with the longest cascade for each
\* observed event; the loop is at rest with an empty channel.
C8_Witness ==
    /\ wstate = "Running"
    /\ pc = "select"
    /\ events = <<>>
    /\ published = MaxObserved
    /\ Len(handled) = nextId - 1
    /\ Len(handled) = published * MaxCascade

\* C9 as claimed: the loop leaves Running only by receiving a value from the
\* stop channel.
C9_StoppedOnlyByStopValue ==
    [][(wstate = "Running" /\ wstate' = "Stopped")
        => (stopq > 0 /\ stopq' = stopq - 1)]_vars

\* C9, amended: the loop leaves Running only through the stop arm of its
\* select, that is when a receive on the stop channel completes, with a
\* value or because the channel's sender is gone; an execution that has left
\* Running stays Stopped until start is called again.
C9_StoppedOnlyByStopArm ==
    [][/\ (wstate = "Running" /\ wstate' = "Stopped")
            => /\ pc = "select"
               /\ dstopCalls' = dstopCalls + 1
               /\ \/ (stopq > 0 /\ stopq' = stopq - 1 /\ stopRecv' = "Ok")
                  \/ (stopq = 0 /\ ~stopTxAlive /\ stopq' = 0 /\ stopRecv' = "Err")
       /\ (wstate = "Stopped" /\ wstate' # "Stopped")
            => (wstate' = "Running" /\ starts' = starts + 1)]_vars

\* The loop has stopped on the disconnection of the stop channel, after a
\* handler error that had not stopped it.
C9_Witness ==
    /\ wstate = "Stopped"
    /\ starts = 1
    /\ lastErr # 0
    /\ stopRecv = "Err"
    /\ ~stopTxAlive
    /\ stopq = 0
    /\ dstopCalls = 1

\* C10 as claimed: Stopped is terminal for the instance: once a call of
\* start has returned on a stop, the instance runs no loop again, spawns no
\* Dispatcher task and handles no event.
C10_StoppedIsTerminal ==
    [][dstopCalls > 0
        => (/\ wstate' # "Running"
            /\ (dtask' = "spawned" => dtask = "spawned")
            /\ Len(handled') <= Len(handled))]_vars

\* C11 as claimed: a derived event is handled before any further observed
\* event: when the handling of an observed event begins, no derived event
\* is waiting in the channel.
C11_DerivedBeforeObserved ==
    (pc = "handle" /\ cur.parent = 0)
        => \A i \in DOMAIN events : events[i].parent = 0

\* C11, amended: a derived event goes to the tail of the channel: it is
\* handled after every event that was in the channel when it was enqueued,
\* the observed ones included, and before every event enqueued after it.
C11_DerivedHandledInQueueOrder ==
    /\ \A i, j \in DOMAIN events : i < j => events[i].id < events[j].id
    /\ \A i \in DOMAIN events : \A h \in HandledIds : h < events[i].id
    /\ \A i \in DOMAIN events : events[i].parent < events[i].id
    /\ events # <<>> => events[Len(events)].id = nextId - 1

\* The second observed event is being handled while a derived event of the
\* first, enqueued behind it, waits in the channel.
C11_Witness ==
    /\ pc = "handle"
    /\ cur.id = 2
    /\ cur.parent = 0
    /\ \E i \in DOMAIN events : events[i].parent = 1

\* The kinds of the events in the channel that the handling of event p produced.
DerivedInChannel(p) ==
    LET sel == SelectSeq(events, LAMBDA e : e.parent = p)
    IN  [i \in DOMAIN sel |-> sel[i].kind]

\* In the for loop, what has been sent followed by what is still to send is
\* what handle returned; outside of it nothing is left to send.
C12_SentThenPendingIsReturned ==
    /\ pc = "post" =>
        /\ pending # <<>>
        /\ DerivedInChannel(cur.id) \o pending \in HandleResults(cur.kind)
    /\ pc # "post" => pending = <<>>
    /\ \A i \in DOMAIN events :
        events[i].parent # 0 =>
            (events[i].kind \in DerivedKinds /\ events[i].parent \in HandledIds)

\* A step of the for loop puts the first event still to send at the tail of
\* the channel; the channel grows by nothing else than such a step or a
\* publication of the Dispatcher.
C12_OnlyReturnedEventsEnqueued ==
    /\ (pc = "post" /\ pending' # pending)
        => /\ events' = Append(events, [id |-> nextId, kind |-> Head(pending),
                                        parent |-> cur.id])
           /\ pending' = Tail(pending)
           /\ published' = published
    /\ (pc = "handle" /\ pc' = "post")
        => (pending' \in HandleResults(cur.kind) /\ events' = events)
    /\ Len(events') > Len(events)
        => \/ pc = "post" /\ published' = published
           \/ /\ published' = published + 1
              /\ events' = Append(events, events'[Len(events')])
              /\ events'[Len(events')].parent = 0

\* C12: the loop enqueues each event a successful handle call returned
\* exactly once, at the tail of the channel, in the returned order, before
\* the next select, and it enqueues nothing else.
C12_DerivedRepublishedInOrder ==
    /\ []C12_SentThenPendingIsReturned
    /\ [][C12_OnlyReturnedEventsEnqueued]_vars

\* Both events returned for a file change are in the channel in the
\* returned order, behind an observed event, and the loop is back at select.
C12_Witness ==
    /\ wstate = "Running"
    /\ pc = "select"
    /\ Len(handled) = 1
    /\ DerivedInChannel(1) = <<"Index", "SessionClose">>
    /\ Len(events) = 3

\* C13: the stop is observed at the select only: while an event is being
\* handled a ready stop channel is left alone, and Dispatcher::stop is
\* called and start returns only when no handling is in progress and every
\* derived event returned has been enqueued.
C13_StopOnlyBetweenEvents ==
    [][/\ (dstopCalls' # dstopCalls \/ (wstate = "Running" /\ wstate' # "Running"))
            => /\ pc = "select"
               /\ inflight = {}
               /\ pending = <<>>
               /\ cur = NoEvent
       /\ (wstate = "Running" /\ pc # "select" /\ StopReady)
            => /\ wstate' = "Running"
               /\ stopq' >= stopq
               /\ dstopCalls' = dstopCalls
               /\ ret' = ret]_vars

\* A stop value waits while the loop is in the middle of sending the
\* derived events of the event it handles.
C13_Witness ==
    /\ wstate = "Running"
    /\ pc = "post"
    /\ stopq > 0
    /\ Len(pending) = 1
    /\ DerivedInChannel(cur.id) # <<>>

\* The failure of the Dispatcher task touches nothing of the loop, and from
\* then on the channel grows by derived events only and no task is spawned
\* unless start is called again.
C14_FailedTaskLeavesLoopAlone ==
    /\ (dtask' = "failed" /\ dtask # "failed")
        => (wstate' = wstate /\ pc' = pc /\ events' = events /\ ret' = ret)
    /\ (dtask = "failed" /\ starts' = starts)
        => (dtask' = "failed" /\ published' = published)
    /\ (dtask = "failed" /\ Len(events') > Len(events)) => pc = "post"

\* C14: when the Dispatcher task fails the loop stays Running: no observed
\* event arrives any more, the events in the channel and their derived
\* events are still handled, a stop signal still stops the loop, and the
\* task is not restarted.
C14_LoopSurvivesDispatcherFailure ==
    /\ [][C14_FailedTaskLeavesLoopAlone]_vars
    /\ \A i \in 1..MaxIds :
        (dtask = "failed" /\ wstate = "Running" /\ i \in ChannelIds)
            ~> (i \in HandledIds \/ wstate = "Stopped")
    /\ (dtask = "failed" /\ wstate = "Running" /\ stopq > 0) ~> (wstate = "Stopped")

\* The task has failed after publishing; the loop is handling a derived
\* event and another event waits.
C14_Witness ==
    /\ dtask = "failed"
    /\ wstate = "Running"
    /\ pc = "handle"
    /\ cur.parent # 0
    /\ events # <<>>

\* C15: start returns Ok(()) and nothing else, also when Dispatcher::stop
\* has returned an error: the loop is then Stopped all the same; the stop
\* arm never waits for the Dispatcher task.
C15_StartAlwaysReturnsOk ==
    /\ ret # "Err"
    /\ wstate = "Stopped" <=> ret = "Ok"
    /\ dstopErr => (wstate = "Stopped" /\ ret = "Ok")
    /\ (wstate = "Running" /\ pc = "select" /\ StopReady) => ENABLED StopSignal

\* start has returned Ok after a handler error and a failed Dispatcher::stop,
\* with the Dispatcher task still running.
C15_Witness ==
    /\ wstate = "Stopped"
    /\ ret = "Ok"
    /\ dstopErr
    /\ lastErr # 0
    /\ dtask = "started"

\* The step in which handler.handle(cur) fails.
C17_HandleFails == pc = "handle" /\ lastErr' # lastErr /\ lastErr' = cur.id

\* What the failing step leaves alone: the channel, the ids, the loop's state
\* and the Dispatcher; nothing is pending and the loop is back at select.
C17_FrameOfFailedHandle ==
    C17_HandleFails =>
        /\ events' = events
        /\ nextId' = nextId
        /\ cur.id \notin {events'[i].id : i \in DOMAIN events'}
        /\ pending' = <<>>
        /\ pc' = "select"
        /\ wstate = "Running" /\ wstate' = "Running"
        /\ UNCHANGED <<taskVars, dstopCalls, ownerVars, retVars, handled, starts>>

\* No event derived from the event whose handling failed last is ever in
\* the channel, nor that event itself.
C17_NothingOnBehalfOfFailed ==
    (wstate = "Running" /\ lastErr # 0) =>
        \A i \in DOMAIN events :
            events[i].id # lastErr /\ events[i].parent # lastErr

\* C17: a failed Handler::handle(E) changes the event channel by nothing but
\* the removal of E that preceded it: E is not put back, no derived event is
\* enqueued for E, the loop stays Running and the Dispatcher is untouched.
C17_FailedHandleLeavesChannelAlone ==
    /\ []C17_NothingOnBehalfOfFailed
    /\ [][C17_FrameOfFailedHandle]_vars

\* The last event handed to the Handler failed; the loop is back at select,
\* Running, with another event waiting and the Dispatcher observing.
C17_Witness ==
    /\ wstate = "Running"
    /\ pc = "select"
    /\ lastErr # 0
    /\ handled # <<>>
    /\ handled[Len(handled)] = lastErr
    /\ events # <<>>
    /\ dtask = "started"

\* The stop arm runs whatever the Dispatcher task has reached, calls
\* Dispatcher::stop and lets start return Ok.
C18_StopArmCallsStop ==
    (wstate = "Running" /\ wstate' = "Stopped") =>
        /\ dstopCalls' = dstopCalls + 1
        /\ ret' = "Ok"
        /\ dtask' = dtask

\* Once start has returned, what the Dispatcher task still does (beginning
\* dispatcher.start, publishing, failing) reaches no Handler call.
C18_NothingHandledAfterReturn ==
    (wstate = "Stopped" /\ wstate' = "Stopped") =>
        /\ handled' = handled
        /\ events' = <<>>
        /\ pc' = "select"
        /\ lastErr' = lastErr

\* C18: a stop signal received before the Dispatcher task has begun or
\* completed dispatcher.start still makes the loop call Dispatcher::stop and
\* start return; nothing deadlocks, and what the task publishes after the
\* return is never handled.
C18_StopBeforeDispatcherStarted ==
    /\ [][C18_StopArmCallsStop]_vars
    /\ [][C18_NothingHandledAfterReturn]_vars
    /\ (wstate = "Running" /\ StopReady /\ dtask = "spawned") ~> (wstate = "Stopped")
    /\ (wstate = "Running" /\ StopReady /\ dtask = "failed") ~> (wstate = "Stopped")

\* The stop signal was taken before the task began dispatcher.start and
\* before anything was enqueued; the task has since begun and published, and
\* nothing was handled.
C18_Witness ==
    /\ wstate = "Stopped"
    /\ ret = "Ok"
    /\ dstopCalls = 1
    /\ nextId = 1
    /\ handled = <<>>
    /\ dtask = "started"
    /\ published > 0

\* C19: a send on the event channel never waits for room: whatever the
\* length of the queue, the loop's re-publication of a derived event and the
\* Dispatcher's publication can be done at once, so the loop never waits on
\* a send to the channel it alone empties; between two selects the loop is
\* never without a step to take.
C19_PublishingNeverBlocks ==
    /\ (wstate = "Running" /\ pc = "post") => ENABLED PostEvent
    /\ (wstate = "Running" /\ pc = "handle") => ENABLED (HandleOk \/ HandleErr)
    /\ (wstate = "Running" /\ dtask = "started" /\ ~dstopReq
            /\ published < MaxObserved) => ENABLED DispatcherPublish

\* The loop is about to send a derived event to a channel that already holds
\* more events than any queue bound of the model.
C19_Witness ==
    /\ wstate = "Running"
    /\ pc = "post"
    /\ pending # <<>>
    /\ Len(events) > MaxQueue

\* C20: while the loop is Running it holds a sender and the receiver of the
\* event channel, so the channel is never disconnected: a receive yields an
\* event or waits, a send succeeds, and neither failure branch can be taken,
\* also when the Dispatcher task has ended and dropped its sender.
C20_ChannelNeverDisconnected ==
    wstate = "Running" =>
        /\ chan.tx /\ chan.rx
        /\ ~RecvDisconnected
        /\ ~SendFails
        /\ pc = "select" => (ENABLED RecvEvent <=> events # <<>>)

\* The Dispatcher task has ended and dropped its sender, the channel is
\* empty and the loop waits at select.
C20_Witness ==
    /\ wstate = "Running"
    /\ pc = "select"
    /\ dtask \in {"failed", "exited"}
    /\ ~chan.taskTx
    /\ events = <<>>
    /\ handled # <<>>
====
